---- MODULE Spec2Model ----
(***************************************************************************)
(* Model of scripts/autotune_eve.py: the two-stage Eve hyperparameter      *)
(* search (sample_initial_candidates, run_trial, select_top, main).        *)
(*                                                                         *)
(* Numbers.  Hyperparameters are fixed-point integers in units of 5e-5,    *)
(* so 0.80 = 16000, 0.9999 = 19998, 1.5 = 30000; every literal of the      *)
(* source (bounds, sampling ranges, sigmas) is exact at this scale.        *)
(* Floating-point rounding below that scale is not modelled.               *)
(* A bpb value is a Python float: a record [k, v] with k one of "fin",     *)
(* "inf", "-inf", "nan"; comparison and min follow Python's semantics.     *)
(*                                                                         *)
(* random.uniform(a, b) is a + (b - a) * random(); the value of random()   *)
(* is a nondeterministic choice among 0, 1/2 and 1 (u = 0, 1, 2).  One     *)
(* HyperParams takes three consecutive draws, a triple <<u1, u2, u3>>.     *)
(*                                                                         *)
(* The training job is an external process: it is started by LaunchTrial   *)
(* (subprocess.run is entered) and its termination, with any exit status   *)
(* and captured text, is the step JobExit, which runs the rest of          *)
(* run_trial and the caller's results.append.  Fields of TrialResult that  *)
(* no decision of the program reads (runtime_sec, command, log_path) are   *)
(* left out.                                                               *)
(***************************************************************************)
EXTENDS Integers, Sequences, FiniteSets, TLC

VARIABLES
    args,               \* parse_args(): stage1_trials, stage1_iters, stage2_iters
    pc,                 \* position of main()
    idx,                \* loop index of the running stage (enumerate(..., 1))
    stage1_candidates,  \* main: stage1_candidates
    stage2_candidates,  \* main: stage2_candidates
    top_k,              \* the k handed to select_top
    top_stage1,         \* main: top_stage1 (the value select_top returned)
    results,            \* main: results
    running,            \* the trials whose job is inside subprocess.run
    completed,          \* run_trial: result (returncode, stdout) of the last job, <<>> before
    launched,           \* run names for which subprocess.run was entered, in order
    summary,            \* the documents written to eve_summary.json, in order
    exit_status         \* process exit status, -1 while running

vars == <<args, pc, idx, stage1_candidates, stage2_candidates, top_k, top_stage1,
          results, running, completed, launched, summary, exit_status>>

-----------------------------------------------------------------------------
(* Bounds of the model *)

MaxStage1Trials == 3    \* largest --stage1-trials
MaxLines == 2           \* longest captured output, in lines (run_trial alone)
MaxOutcomes == 3        \* longest list handed to select_top alone

-----------------------------------------------------------------------------
(* Python floats *)

Fin(n) == [k |-> "fin", v |-> n]
PosInf == [k |-> "inf", v |-> 0]
NegInf == [k |-> "-inf", v |-> 0]
NaN == [k |-> "nan", v |-> 0]

\* a < b on floats: every comparison with nan is False
FloatLt(a, b) ==
    CASE a.k = "nan" \/ b.k = "nan" -> FALSE
      [] a.k = "-inf" -> b.k # "-inf"
      [] a.k = "inf" -> FALSE
      [] OTHER -> \/ b.k = "inf"
                  \/ b.k = "fin" /\ a.v < b.v

\* min with its arguments swapped: the second argument unless the first is smaller
PyMin_Swapped(a, b) == IF FloatLt(a, b) THEN a ELSE b

\* min(a, b): the first argument unless the second is smaller
PyMin(a, b) == IF FloatLt(b, a) THEN b ELSE a

isfinite(x) == x.k = "fin"

IntMin(a, b) == IF a < b THEN a ELSE b
IntMax(a, b) == IF a > b THEN a ELSE b

-----------------------------------------------------------------------------
(* HyperParams *)

HP(b1, b2, e) == [beta1 |-> b1, beta2 |-> b2, eta |-> e]

\* clamp whose beta2 line repeats the bounds of beta1
clamp_CopyPaste(p) ==
    HP(IntMin(IntMax(p.beta1, 16000), 19600),
       IntMin(IntMax(p.beta2, 16000), 19600),
       IntMin(IntMax(p.eta, 10000), 30000))

clamp(p) ==
    HP(IntMin(IntMax(p.beta1, 16000), 19600),
       IntMin(IntMax(p.beta2, 19920), 19998),
       IntMin(IntMax(p.eta, 10000), 30000))

\* random.uniform(a, b) with random() = u/2
uniform(a, b, u) == a + ((b - a) * u) \div 2

\* HyperParams.perturb with keyword sigmas sg = <<beta1, beta2, eta>>
perturb(p, sg, u) ==
    clamp(HP(p.beta1 + uniform(-sg[1], sg[1], u[1]),
             p.beta2 + uniform(-sg[2], sg[2], u[2]),
             p.eta + uniform(-sg[3], sg[3], u[3])))

Baseline == HP(18000, 19980, 20000)

\* one pass of the while loop of sample_initial_candidates
sample_one(u) ==
    clamp(HP(uniform(17000, 19000, u[1]),
             uniform(19970, 19990, u[2]),
             uniform(16000, 24000, u[3])))

\* every list sample_initial_candidates(n, seed) can return when each
\* HyperParams draws its triple from D
sample_initial_candidates(n, D) ==
    { <<Baseline>> \o [i \in 1..(IntMax(n, 1) - 1) |-> sample_one(us[i])] :
        us \in [1..(IntMax(n, 1) - 1) -> D] }

TightSigma == <<200, 5, 1600>>
LooseSigma == <<300, 6, 2000>>

-----------------------------------------------------------------------------
(* run_trial: metric extraction and failure policy *)

\* float(line.split(":")[-1].strip()) on the last field of a line
ValueError == [k |-> "ValueError", v |-> 0]
float(tok) ==
    CASE tok = " 1" -> Fin(1)
      [] tok = " 2" -> Fin(2)
      [] tok = " inf" -> PosInf
      [] tok = " -inf" -> NegInf
      [] tok = " nan" -> NaN
      [] OTHER -> ValueError

\* the for loop over result.stdout.splitlines(), from acc = [min, final]
RECURSIVE ScanLines(_, _)
ScanLines(lines, acc) ==
    IF lines = <<>> THEN acc
    ELSE LET line == Head(lines)
             val == float(line.last)
         IN IF line.tag /\ val # ValueError
            THEN ScanLines(Tail(lines),
                           [min |-> PyMin(acc.min, val), final |-> val])
            ELSE ScanLines(Tail(lines), acc)

\* run_trial whose failure branch resets min_bpb only
run_trial_KeepFinal(t, job) ==
    LET parsed == ScanLines(job.stdout, [min |-> PosInf, final |-> PosInf])
        failed == job.returncode # 0
    IN [stage |-> t.stage,
        trial_id |-> t.trial_id,
        params |-> t.params,
        iterations |-> t.iterations,
        min_bpb |-> IF failed THEN PosInf ELSE parsed.min,
        final_bpb |-> parsed.final]

run_trial(t, job) ==
    LET parsed == ScanLines(job.stdout, [min |-> PosInf, final |-> PosInf])
        failed == job.returncode # 0
    IN [stage |-> t.stage,
        trial_id |-> t.trial_id,
        params |-> t.params,
        iterations |-> t.iterations,
        min_bpb |-> IF failed THEN PosInf ELSE parsed.min,
        final_bpb |-> IF failed THEN PosInf ELSE parsed.final]

-----------------------------------------------------------------------------
(* select_top and the aggregation of main *)

\* an insertion that puts x before the elements equal to it (an unstable sort)
RECURSIVE Insert_Unstable(_, _)
Insert_Unstable(x, s) ==
    IF s = <<>> THEN <<x>>
    ELSE IF ~FloatLt(Head(s).min_bpb, x.min_bpb) THEN <<x>> \o s
         ELSE <<Head(s)>> \o Insert_Unstable(x, Tail(s))

\* insert x into a list sorted by min_bpb, after every element not greater
RECURSIVE Insert(_, _)
Insert(x, s) ==
    IF s = <<>> THEN <<x>>
    ELSE IF FloatLt(x.min_bpb, Head(s).min_bpb) THEN <<x>> \o s
         ELSE <<Head(s)>> \o Insert(x, Tail(s))

\* sorted(results, key=lambda r: r.min_bpb): stable, ascending
RECURSIVE sorted(_)
sorted(s) ==
    IF s = <<>> THEN <<>>
    ELSE Insert(s[Len(s)], sorted(SubSeq(s, 1, Len(s) - 1)))

select_top(rs, n) == SubSeq(sorted(rs), 1, IntMin(n, Len(rs)))

\* a filter that compares with math.inf instead of calling math.isfinite
IsSuccessful_NotInf(r) == r.min_bpb # PosInf

IsSuccessful(r) == isfinite(r.min_bpb)
successful(rs) == SelectSeq(rs, IsSuccessful)

\* a minimum that keeps the last smallest element
RECURSIVE PyMinBy_Last(_, _)
PyMinBy_Last(s, best) ==
    IF s = <<>> THEN best
    ELSE PyMinBy_Last(Tail(s),
                      IF ~FloatLt(best.min_bpb, Head(s).min_bpb) THEN Head(s) ELSE best)

\* min(successful, key=lambda r: r.min_bpb): the first smallest element
RECURSIVE PyMinBy(_, _)
PyMinBy(s, best) ==
    IF s = <<>> THEN best
    ELSE PyMinBy(Tail(s),
                 IF FloatLt(Head(s).min_bpb, best.min_bpb) THEN Head(s) ELSE best)

best_of(s) == PyMinBy(Tail(s), Head(s))

make_summary(rs) ==
    LET s == successful(rs)
        best == best_of(s)
    IN [best |-> [params |-> best.params, min_bpb |-> best.min_bpb,
                  stage |-> best.stage, iterations |-> best.iterations],
        trials |-> s]

-----------------------------------------------------------------------------
(* The environment: command lines, random draws, job behaviours *)

\* accepted (--stage1-iters, --stage2-iters); <<2500, 5000>> are the defaults
IterPairs == {<<2500, 5000>>, <<5000, 5000>>, <<5000, 2500>>}

Args(trials, iters) ==
    { [stage1_trials |-> n, stage1_iters |-> it[1], stage2_iters |-> it[2]] :
        n \in trials, it \in iters }

Line(tagged, tok) == [tag |-> tagged, last |-> tok]
Job(rc, out) == [returncode |-> rc, stdout |-> out]

Tokens == {" 1", " 2", " inf", " -inf", " nan", " n/a"}
Lines == { Line(tg, tok) : tg \in BOOLEAN, tok \in Tokens }

\* every job of at most MaxLines lines, exit status 0, 1 or 2
TrialJobs ==
    { Job(rc, out) : rc \in {0, 1, 2},
                     out \in UNION { [1..n -> Lines] : n \in 0..MaxLines } }

\* the jobs of a whole search: two finite values, no metric line, a metric
\* line before a failure, and a metric line whose value is inf
RunJobs ==
    { Job(0, <<Line(TRUE, " 1")>>), Job(0, <<Line(TRUE, " 2")>>),
      Job(0, <<>>), Job(2, <<Line(TRUE, " 1")>>),
      Job(0, <<Line(TRUE, " inf")>>) }

\* the jobs of a search that is followed for its outcomes: a metric, no metric
\* line, a metric line before a failure, and metric lines whose value is inf,
\* nan or -inf
OutcomeJobs ==
    { Job(0, <<Line(TRUE, " 1")>>), Job(0, <<>>), Job(2, <<Line(TRUE, " 1")>>),
      Job(0, <<Line(TRUE, " inf")>>), Job(0, <<Line(TRUE, " nan")>>),
      Job(0, <<Line(TRUE, " 1"), Line(TRUE, " -inf")>>),
      Job(0, <<Line(TRUE, " 2"), Line(TRUE, " nan")>>) }

\* the jobs of a search that is followed for its parameter sets
ParamJobs == { Job(0, <<Line(TRUE, " 1")>>), Job(2, <<>>) }

RunDraws == { <<0, 2, 1>> }
ParamDraws == { <<0, 0, 0>>, <<2, 2, 2>> }

-----------------------------------------------------------------------------
(* main *)

Start(a) ==
    /\ args = a
    /\ pc = "bootstrap"
    /\ idx = 0
    /\ stage1_candidates = <<>>
    /\ stage2_candidates = <<>>
    /\ top_k = 0
    /\ top_stage1 = <<>>
    /\ results = <<>>
    /\ running = {}
    /\ completed = <<>>
    /\ launched = <<>>
    /\ summary = <<>>
    /\ exit_status = -1

Init == \E a \in Args(0..MaxStage1Trials, IterPairs) : Start(a)

\* ensure_datasets() returns, or raises and ends the process
EnsureDatasets ==
    /\ pc = "bootstrap"
    /\ \E ok \in BOOLEAN :
        IF ok THEN pc' = "sample" /\ UNCHANGED exit_status
        ELSE pc' = "done" /\ exit_status' = 1
    /\ UNCHANGED <<args, idx, stage1_candidates, stage2_candidates, top_k,
                   top_stage1, results, running, completed, launched, summary>>

SampleInitialCandidates(D) ==
    /\ pc = "sample"
    /\ stage1_candidates' \in sample_initial_candidates(args.stage1_trials, D)
    /\ pc' = "stage1"
    /\ idx' = 1
    /\ UNCHANGED <<args, stage2_candidates, top_k, top_stage1, results, running,
                   completed, launched, summary, exit_status>>

\* a loop body that starts the job without waiting for the one before
LaunchTrial_NoWait(stage, cands, iters) ==
    /\ pc = stage
    /\ idx <= Len(cands)
    /\ running' = running \cup { [stage |-> stage, trial_id |-> <<stage, idx>>,
                                  params |-> cands[idx], iterations |-> iters] }
    /\ launched' = Append(launched, <<stage, idx>>)
    /\ UNCHANGED <<args, pc, idx, stage1_candidates, stage2_candidates, top_k,
                   top_stage1, results, completed, summary, exit_status>>

\* a loop body up to the entry of subprocess.run
LaunchTrial(stage, cands, iters) ==
    /\ pc = stage
    /\ running = {}
    /\ idx <= Len(cands)
    /\ running' = { [stage |-> stage, trial_id |-> <<stage, idx>>,
                     params |-> cands[idx], iterations |-> iters] }
    /\ launched' = Append(launched, <<stage, idx>>)
    /\ UNCHANGED <<args, pc, idx, stage1_candidates, stage2_candidates, top_k,
                   top_stage1, results, completed, summary, exit_status>>

Stage1Launch == LaunchTrial("stage1", stage1_candidates, args.stage1_iters)
\* a stage-2 loop that passes the stage-1 budget
Stage2Launch_Stage1Iters == LaunchTrial("stage2", stage2_candidates, args.stage1_iters)

Stage2Launch == LaunchTrial("stage2", stage2_candidates, args.stage2_iters)

\* a job end where a nonzero exit status raises (subprocess.run(check=True))
JobExit_Check(J) ==
    /\ pc \in {"stage1", "stage2"}
    /\ \E t \in running, job \in J :
        /\ completed' = <<job>>
        /\ running' = running \ {t}
        /\ IF job.returncode # 0
           THEN /\ pc' = "done" /\ exit_status' = 1
                /\ UNCHANGED <<results, idx>>
           ELSE /\ results' = Append(results, run_trial(t, job))
                /\ idx' = idx + 1
                /\ pc' = IF pc = "stage1"
                         THEN (IF idx = Len(stage1_candidates) THEN "refine" ELSE pc)
                         ELSE (IF idx = Len(stage2_candidates) THEN "aggregate" ELSE pc)
                /\ UNCHANGED exit_status
    /\ UNCHANGED <<args, stage1_candidates, stage2_candidates, top_k,
                   top_stage1, launched, summary>>

\* the job ends: the rest of run_trial, results.append, and the loop's step
JobExit(J) ==
    /\ pc \in {"stage1", "stage2"}
    /\ \E t \in running, job \in J :
        /\ completed' = <<job>>
        /\ results' = Append(results, run_trial(t, job))
        /\ running' = running \ {t}
    /\ idx' = idx + 1
    /\ pc' = IF pc = "stage1"
             THEN (IF idx = Len(stage1_candidates) THEN "refine" ELSE pc)
             ELSE (IF idx = Len(stage2_candidates) THEN "aggregate" ELSE pc)
    /\ UNCHANGED <<args, stage1_candidates, stage2_candidates, top_k,
                   top_stage1, launched, summary, exit_status>>

\* a refinement whose second perturb call keeps the default beta1_sigma=0.02
RECURSIVE refine_DefaultSigma(_, _)
refine_DefaultSigma(top, us) ==
    IF top = <<>> THEN <<>>
    ELSE <<Head(top).params,
           perturb(Head(top).params, TightSigma, us[1]),
           perturb(Head(top).params, <<400, 6, 2000>>, us[2])>>
         \o refine_DefaultSigma(Tail(top), SubSeq(us, 3, Len(us)))

\* the three stage-2 candidates of every selected outcome, in order; us holds
\* the draws of the two perturb calls of each
RECURSIVE refine(_, _)
refine(top, us) ==
    IF top = <<>> THEN <<>>
    ELSE <<Head(top).params,
           perturb(Head(top).params, TightSigma, us[1]),
           perturb(Head(top).params, LooseSigma, us[2])>>
         \o refine(Tail(top), SubSeq(us, 3, Len(us)))

Refine(D) ==
    /\ pc = "refine"
    /\ top_k' = IntMin(2, Len(results))
    /\ top_stage1' = select_top(results, top_k')
    /\ \E us \in [1..(2 * Len(top_stage1')) -> D] :
        stage2_candidates' = refine(top_stage1', us)
    /\ pc' = "stage2"
    /\ idx' = 1
    /\ UNCHANGED <<args, stage1_candidates, results, running, completed,
                   launched, summary, exit_status>>

Aggregate ==
    /\ pc = "aggregate"
    /\ IF successful(results) = <<>>
       THEN exit_status' = 1 /\ UNCHANGED summary
       ELSE /\ summary' = Append(summary, make_summary(results))
            /\ exit_status' = 0
    /\ pc' = "done"
    /\ UNCHANGED <<args, idx, stage1_candidates, stage2_candidates, top_k,
                   top_stage1, results, running, completed, launched>>

Next ==
    \/ EnsureDatasets
    \/ SampleInitialCandidates(RunDraws)
    \/ Stage1Launch
    \/ Stage2Launch
    \/ JobExit(RunJobs)
    \/ Refine(RunDraws)
    \/ Aggregate

Spec == Init /\ [][Next]_vars

-----------------------------------------------------------------------------
(* A search followed for its parameter sets: every draw, few job behaviours *)

InitParams == \E a \in Args(0..MaxStage1Trials, {<<2500, 5000>>}) : Start(a)

NextParams ==
    \/ EnsureDatasets
    \/ SampleInitialCandidates(ParamDraws)
    \/ Stage1Launch
    \/ Stage2Launch
    \/ JobExit(ParamJobs)
    \/ Refine(ParamDraws)
    \/ Aggregate

SpecParams == InitParams /\ [][NextParams]_vars

-----------------------------------------------------------------------------
(* A search followed for its outcomes: every kind of job, one or two        *)
(* stage-1 trials                                                          *)

InitOutcomes == \E a \in Args({1, 2}, {<<2500, 5000>>}) : Start(a)

NextOutcomes ==
    \/ EnsureDatasets
    \/ SampleInitialCandidates(RunDraws)
    \/ Stage1Launch
    \/ Stage2Launch
    \/ JobExit(OutcomeJobs)
    \/ Refine(RunDraws)
    \/ Aggregate

SpecOutcomes == InitOutcomes /\ [][NextOutcomes]_vars

-----------------------------------------------------------------------------
(* run_trial alone: the first stage-1 trial of a one-trial search, its job   *)
(* just launched, ended by any job                                           *)

InitTrial ==
    /\ args \in Args({1}, IterPairs)
    /\ pc = "stage1"
    /\ idx = 1
    /\ stage1_candidates = <<Baseline>>
    /\ stage2_candidates = <<>>
    /\ top_k = 0
    /\ top_stage1 = <<>>
    /\ results = <<>>
    /\ running = { [stage |-> "stage1", trial_id |-> <<"stage1", 1>>,
                    params |-> Baseline, iterations |-> args.stage1_iters] }
    /\ completed = <<>>
    /\ launched = << <<"stage1", 1>> >>
    /\ summary = <<>>
    /\ exit_status = -1

NextTrial == JobExit(TrialJobs)

SpecTrial == InitTrial /\ [][NextTrial]_vars

-----------------------------------------------------------------------------
(* select_top alone: any list of outcomes run_trial can return, any k *)

Metrics == {Fin(1), Fin(2), PosInf, NegInf}

Outcome(i, m) ==
    [stage |-> "stage1", trial_id |-> <<"stage1", i>>, params |-> Baseline,
     iterations |-> 2500, min_bpb |-> m, final_bpb |-> m]

InitSelect ==
    /\ args \in Args({1}, {<<2500, 5000>>})
    /\ pc = "select_top"
    /\ idx = 0
    /\ stage1_candidates = <<>>
    /\ stage2_candidates = <<>>
    /\ \E n \in 0..MaxOutcomes :
        /\ \E ms \in [1..n -> Metrics] :
             results = [i \in 1..n |-> Outcome(i, ms[i])]
        /\ top_k \in 0..n
    /\ top_stage1 = <<>>
    /\ running = {}
    /\ completed = <<>>
    /\ launched = <<>>
    /\ summary = <<>>
    /\ exit_status = -1

CallSelectTop ==
    /\ pc = "select_top"
    /\ top_stage1' = select_top(results, top_k)
    /\ pc' = "returned"
    /\ UNCHANGED <<args, idx, stage1_candidates, stage2_candidates, top_k,
                   results, running, completed, launched, summary, exit_status>>

NextSelect == CallSelectTop

SpecSelect == InitSelect /\ [][NextSelect]_vars

-----------------------------------------------------------------------------
(* Vocabulary of the properties *)

Last(s) == s[Len(s)]
Abs(x) == IF x < 0 THEN -x ELSE x

Bootstrapped == stage1_candidates # <<>>
Stage1Count == Cardinality({ i \in 1..Len(results) : results[i].stage = "stage1" })
Stage2Count == Cardinality({ i \in 1..Len(results) : results[i].stage = "stage2" })
FiniteIdx == { i \in 1..Len(results) : results[i].min_bpb.k = "fin" }
AllNonFinite == FiniteIdx = {}

InBounds(p) ==
    /\ 16000 <= p.beta1 /\ p.beta1 <= 19600
    /\ 19920 <= p.beta2 /\ p.beta2 <= 19998
    /\ 10000 <= p.eta /\ p.eta <= 30000

Within(p, q, sg) ==
    /\ Abs(p.beta1 - q.beta1) <= sg[1]
    /\ Abs(p.beta2 - q.beta2) <= sg[2]
    /\ Abs(p.eta - q.eta) <= sg[3]

\* the values float() returned for the tagged lines of a captured output
Extracted(out) ==
    { float(out[i].last) : i \in { j \in 1..Len(out) :
                                     out[j].tag /\ float(out[j].last) # ValueError } }

\* the state of a trial in the vocabulary PENDING, RUNNING, SUCCEEDED, FAILED
TrialIds ==
    { <<"stage1", i>> : i \in 1..Len(stage1_candidates) }
        \cup { <<"stage2", i>> : i \in 1..Len(stage2_candidates) }
OutcomeIdx(t) == { i \in 1..Len(results) : results[i].trial_id = t }
TrialState(t) ==
    IF \E r \in running : r.trial_id = t THEN "RUNNING"
    ELSE IF OutcomeIdx(t) = {} THEN "PENDING"
    ELSE IF \E i \in OutcomeIdx(t) : results[i].min_bpb.k = "fin" THEN "SUCCEEDED"
    ELSE "FAILED"

-----------------------------------------------------------------------------
(* C1: once bootstrap has succeeded, the process exits nonzero iff every     *)
(* trial of both stages ended with a non-finite min_bpb; then no summary is  *)
(* written, and otherwise exactly one summary is written and the status is 0 *)
C1_ExitStatus ==
    (pc = "done" /\ Bootstrapped) =>
        /\ (exit_status # 0) <=> AllNonFinite
        /\ AllNonFinite => summary = <<>>
        /\ ~AllNonFinite => (Len(summary) = 1 /\ exit_status = 0)

C1_Witness ==
    /\ pc = "done" /\ Bootstrapped /\ Len(results) = 8
    /\ AllNonFinite /\ exit_status = 1 /\ summary = <<>>
    /\ \E i \in 1..Len(results) : results[i].min_bpb = NegInf

(* C2: in run_trial a nonzero exit status gives min_bpb = final_bpb = +inf,  *)
(* whatever the captured text holds                                          *)
C2_NonzeroExitIsInf ==
    (completed # <<>> /\ completed[1].returncode # 0) =>
        /\ Last(results).min_bpb = PosInf
        /\ Last(results).final_bpb = PosInf

C2_Witness ==
    /\ completed = <<Job(2, <<Line(TRUE, " 2"), Line(TRUE, " 1")>>)>>
    /\ Len(results) = 1
    /\ results[1].min_bpb = PosInf /\ results[1].final_bpb = PosInf

(* C3: every HyperParams handed to a trial (running or recorded, of either   *)
(* stage) lies in beta1 [0.80, 0.98], beta2 [0.996, 0.9999], eta [0.5, 1.5]  *)
C3_ParamsInBounds ==
    /\ \A r \in running : InBounds(r.params)
    /\ \A i \in 1..Len(results) : InBounds(results[i].params)

C3_Witness ==
    /\ pc = "stage2" /\ Len(results) = 5
    /\ \E r \in running :
        /\ r.trial_id = <<"stage2", 3>>
        /\ r.params # stage2_candidates[1]
        /\ InBounds(r.params)

(* C4: select_top(outcomes, k), 0 <= k <= len, returns exactly k outcomes,   *)
(* the k of smallest min_bpb, ascending, +inf after every finite one, equal  *)
(* ones in input order; the input list is unchanged                          *)
C4_Pos(i) == CHOOSE j \in 1..Len(results) : results[j].trial_id = top_stage1[i].trial_id

C4_Before(i, j) ==
    \/ FloatLt(results[i].min_bpb, results[j].min_bpb)
    \/ results[i].min_bpb = results[j].min_bpb /\ i < j

C4_SelectTop ==
    pc = "returned" =>
        /\ Len(top_stage1) = top_k
        /\ \A i \in 1..Len(top_stage1) :
            \E j \in 1..Len(results) : results[j] = top_stage1[i]
        /\ \A i, j \in 1..Len(top_stage1) :
            i < j => C4_Before(C4_Pos(i), C4_Pos(j))
        /\ \A i \in 1..Len(top_stage1) :
            \A e \in (1..Len(results)) \ { C4_Pos(j) : j \in 1..Len(top_stage1) } :
                C4_Before(C4_Pos(i), e)
        /\ \A i, j \in 1..Len(top_stage1) :
            (top_stage1[i].min_bpb = PosInf /\ top_stage1[j].min_bpb.k = "fin") => j < i
        /\ \A i \in 1..Len(results) : results[i].trial_id = <<"stage1", i>>

C4_Witness ==
    /\ pc = "returned" /\ top_k = 2 /\ Len(results) = 3
    /\ results[1].min_bpb = PosInf
    /\ results[2].min_bpb = Fin(1)
    /\ results[3].min_bpb = Fin(1)
    /\ top_stage1 = <<results[2], results[3]>>

(* C5: when some outcome is finite, the summary's best has the minimum       *)
(* min_bpb of the finite outcomes and is the earliest outcome attaining it,  *)
(* and the summary's trials are exactly the finite outcomes in order         *)
C5_First == CHOOSE i \in FiniteIdx :
    \A j \in FiniteIdx :
        \/ FloatLt(results[i].min_bpb, results[j].min_bpb)
        \/ results[i].min_bpb = results[j].min_bpb /\ i <= j

C5_Nth(n) == CHOOSE i \in FiniteIdx : Cardinality({ j \in FiniteIdx : j <= i }) = n

C5_Summary ==
    (pc = "done" /\ Bootstrapped /\ FiniteIdx # {}) =>
        /\ summary # <<>>
        /\ LET doc == Last(summary)
               first == results[C5_First]
           IN /\ \A i \in FiniteIdx : ~FloatLt(results[i].min_bpb, doc.best.min_bpb)
              /\ doc.best.min_bpb = first.min_bpb
              /\ doc.best.params = first.params
              /\ doc.best.stage = first.stage
              /\ doc.best.iterations = first.iterations
              /\ Len(doc.trials) = Cardinality(FiniteIdx)
              /\ \A n \in 1..Len(doc.trials) : doc.trials[n] = results[C5_Nth(n)]

C5_Witness ==
    /\ pc = "done" /\ Len(results) = 8 /\ summary # <<>>
    /\ results[1].min_bpb = PosInf
    /\ results[2].min_bpb = Fin(2)
    /\ results[4].min_bpb = Fin(1)
    /\ results[5].min_bpb = NegInf
    /\ results[6].min_bpb = Fin(1)
    /\ Last(summary).best.params = results[4].params
    /\ results[4].params # results[6].params
    /\ Len(Last(summary).trials) < Len(results)

(* C6 as stated: a trial ends FAILED, with both metrics the +inf sentinel,   *)
(* exactly when the exit status is nonzero or no metric value was extracted  *)
C6_AsStated ==
    (completed # <<>>) =>
        LET job == completed[1]
            r == Last(results)
            bad == job.returncode # 0 \/ Extracted(job.stdout) = {}
        IN /\ (r.min_bpb.k # "fin") <=> bad
           /\ (r.min_bpb.k # "fin") => (r.min_bpb = PosInf /\ r.final_bpb = PosInf)

\* FAILED (non-finite min_bpb) exactly when the exit status is nonzero, no
\* finite value was extracted, or a -inf value was extracted
C6_Classified ==
    (completed # <<>>) =>
        LET job == completed[1]
            vals == Extracted(job.stdout)
            bad == \/ job.returncode # 0
                   \/ ~(\E x \in vals : x.k = "fin")
                   \/ NegInf \in vals
        IN (Last(results).min_bpb.k # "fin") <=> bad

\* no trial is launched twice, none has two outcomes, a finished search has
\* one outcome for every trial it launched
C6_Once ==
    LET started == { launched[i] : i \in 1..Len(launched) }
        ended == { results[i].trial_id : i \in 1..Len(results) }
        active == { r.trial_id : r \in running }
    IN /\ Cardinality(started) = Len(launched)
       /\ Cardinality(ended) = Len(results)
       /\ ended \cup active = started
       /\ ended \cap active = {}
       /\ (pc \in {"aggregate", "done"} /\ Bootstrapped) => ended = TrialIds

\* PENDING -> RUNNING -> {SUCCEEDED, FAILED}: only a PENDING trial is launched,
\* only a RUNNING trial gets an outcome, and a recorded outcome (and with it a
\* terminal state) never changes
C6_Step ==
    /\ \A i \in 1..Len(results) : Len(results') >= i /\ results'[i] = results[i]
    /\ \A i \in (Len(results) + 1)..Len(results') :
        \E r \in running : r.trial_id = results'[i].trial_id
    /\ \A r \in running' \ running : TrialState(r.trial_id) = "PENDING"
    /\ \A r \in running \ running' :
        TrialState(r.trial_id)' \in {"SUCCEEDED", "FAILED"}

(* C6 (amended): each trial follows PENDING -> RUNNING -> {SUCCEEDED,        *)
(* FAILED}; it ends FAILED (non-finite min_bpb) exactly when the exit status *)
(* is nonzero, no finite metric value was extracted, or a -inf value was     *)
(* extracted, and SUCCEEDED otherwise; a terminal state and its recorded     *)
(* outcome never change, no trial is launched twice, and each trial          *)
(* contributes exactly one outcome                                           *)
C6_TrialLifecycle == [](C6_Classified /\ C6_Once) /\ [][C6_Step]_vars

C6_Witness ==
    /\ completed = <<Job(0, <<Line(TRUE, " 2"), Line(TRUE, " nan")>>)>>
    /\ Len(results) = 3
    /\ TrialState(<<"stage1", 1>>) = "FAILED"
    /\ results[1].final_bpb = NaN
    /\ TrialState(<<"stage2", 1>>) = "FAILED"
    /\ results[2].min_bpb = NegInf
    /\ TrialState(<<"stage2", 2>>) = "SUCCEEDED"
    /\ TrialState(<<"stage2", 3>>) = "PENDING"

(* C7 as stated: for every accepted command line, every stage-2 trial has a  *)
(* strictly larger iteration budget than every stage-1 trial                 *)
C7_AsStated ==
    \A i, j \in 1..Len(results) :
        (results[i].stage = "stage1" /\ results[j].stage = "stage2")
            => results[j].iterations > results[i].iterations

(* C7 (amended): every stage-1 trial runs --stage1-iters and every stage-2   *)
(* trial --stage2-iters iterations, so the stage-2 budget is strictly larger *)
(* whenever --stage2-iters > --stage1-iters (as with the defaults)           *)
C7_Budgets ==
    LET trials == running \cup { results[i] : i \in 1..Len(results) }
    IN /\ \A t \in trials :
            t.iterations = IF t.stage = "stage1" THEN args.stage1_iters
                           ELSE args.stage2_iters
       /\ args.stage2_iters > args.stage1_iters =>
            \A t1, t2 \in trials :
                (t1.stage = "stage1" /\ t2.stage = "stage2")
                    => t2.iterations > t1.iterations

C7_Witness ==
    /\ args.stage1_iters = 2500 /\ args.stage2_iters = 5000
    /\ pc = "done" /\ Len(results) = 9
    /\ results[3].iterations = 2500
    /\ results[9].iterations = 5000

(* C8: at most one trial is RUNNING; a trial is launched only after the      *)
(* previous outcome was appended; no stage-2 trial is launched and no        *)
(* stage-2 candidate derived before every stage-1 trial is terminal; the     *)
(* result list is the stage-1 outcomes in candidate order, then stage 2's    *)
C8_Sequential ==
    LET n1 == Len(stage1_candidates)
    IN /\ Cardinality(running) <= 1
       /\ Len(launched) = Len(results) + Cardinality(running)
       /\ (stage2_candidates # <<>> \/ \E i \in 1..Len(launched) : launched[i][1] = "stage2")
            => \A i \in 1..n1 : TrialState(<<"stage1", i>>) \in {"SUCCEEDED", "FAILED"}
       /\ \A i \in 1..Len(results) :
            /\ results[i].trial_id = launched[i]
            /\ i <= n1 => /\ results[i].trial_id = <<"stage1", i>>
                          /\ results[i].params = stage1_candidates[i]
            /\ i > n1 => /\ results[i].trial_id = <<"stage2", i - n1>>
                         /\ results[i].params = stage2_candidates[i - n1]

C8_Witness ==
    /\ pc = "stage2" /\ Len(stage1_candidates) = 3
    /\ Len(results) = 5 /\ Cardinality(running) = 1
    /\ \E r \in running : r.trial_id = <<"stage2", 3>>
    /\ results[2].min_bpb = Fin(1) /\ results[1].min_bpb = PosInf

(* C9: a failed trial never aborts the search: with --stage1-trials N >= 1   *)
(* the run executes exactly N stage-1 trials and then 3 * min(2, N) stage-2  *)
(* trials before aggregation, also when every stage-1 trial failed           *)
C9_NoAbort ==
    (Bootstrapped /\ args.stage1_trials >= 1) =>
        /\ pc \in {"aggregate", "done"} =>
            /\ Stage1Count = args.stage1_trials
            /\ Stage2Count = 3 * IntMin(2, args.stage1_trials)
        /\ exit_status # -1 => pc = "done"
        /\ pc = "done" => Len(results) = args.stage1_trials + 3 * IntMin(2, args.stage1_trials)

C9_Witness ==
    /\ pc = "aggregate" /\ args.stage1_trials = 3
    /\ \A i \in 1..3 : results[i].min_bpb = PosInf
    /\ completed[1].returncode = 2
    /\ Stage1Count = 3 /\ Stage2Count = 6

(* C10: for each stage-1 outcome selected by select_top (the top min(2, N)), *)
(* stage 2 holds, in order, its HyperParams unchanged, a variant within      *)
(* (0.01, 2.5e-4, 0.08) of it and a variant within (0.015, 3e-4, 0.1) of it; *)
(* no candidate is derived from an outcome that was not selected             *)
C10_Refinement ==
    pc \in {"stage2", "aggregate", "done"} /\ Bootstrapped =>
        LET n1 == Len(stage1_candidates)
            sel == select_top(SubSeq(results, 1, n1), IntMin(2, n1))
        IN /\ top_stage1 = sel
           /\ Len(stage2_candidates) = 3 * Len(sel)
           /\ \A j \in 1..Len(sel) :
                /\ stage2_candidates[3 * j - 2] = sel[j].params
                /\ Within(stage2_candidates[3 * j - 1], sel[j].params, <<200, 5, 1600>>)
                /\ Within(stage2_candidates[3 * j], sel[j].params, <<300, 6, 2000>>)

C10_Witness ==
    /\ pc = "stage2" /\ Len(stage1_candidates) = 3
    /\ results[1].min_bpb = PosInf
    /\ top_stage1 = <<results[2], results[3]>>
    /\ stage2_candidates[4] = results[3].params
    /\ stage2_candidates[5].beta1 = results[3].params.beta1 - 200
    /\ stage2_candidates[6].eta = results[3].params.eta + 2000
    /\ results[3].params # Baseline

====
